---------------------------- MODULE Spec2Model ----------------------------
(***************************************************************************)
(* Model of the dispenser backend (src/index.js; src/unnamed/part_000 is   *)
(* the earlier variant with the same queue and the same handlers).         *)
(*                                                                         *)
(* One action is one task of the Node.js event loop: an HTTP handler, a    *)
(* timer or setImmediate callback running processQueue, the completion     *)
(* callback of mqttClient.publish, or a connect / close event of the MQTT  *)
(* client.  Tasks run to completion, so each action is atomic.             *)
(***************************************************************************)
EXTENDS Integers, Sequences, FiniteSets, TLC

VARIABLES
    mqttQueue,          \* index.js:123  the array of pending commands
    isProcessingQueue,  \* index.js:124  the in-flight flag
    connected,          \* mqttClient.connected
    inFlight,           \* publishes issued whose completion callback has not run
    timers,             \* pending setTimeout(processQueue, 1000) callbacks
    immediates,         \* pending setImmediate(processQueue) callbacks
    orderMap,           \* index.js:118  order_id -> item_name
    now,                \* Date.now(), in milliseconds
    res,                \* the last HTTP response: status code and kind of body
    enqLog,             \* history: every command passed to publishToMQTT, in call order
    published,          \* history: every command whose publish callback reported no error
    downEnq,            \* history: uids enqueued while disconnected, since the last close
    dbUpdate,           \* the parameters of the last UPDATE the database executed
    sig                 \* a call of verifyMidtransSignature: its input and its result

vars == <<mqttQueue, isProcessingQueue, connected, inFlight, timers, immediates,
          orderMap, now, res, enqLog, published, downEnq, dbUpdate, sig>>

-----------------------------------------------------------------------------
(* Bounds of the model *)

\* total number of publishToMQTT calls in a behaviour
MaxCmds == 2

\* the same, in the environment where the broker stays connected
MaxCmdsConnected == 3

\* the millisecond clock runs over 1..MaxClock
MaxClock == 2

\* the number of publishToMQTT calls, in the environments with a database
MaxCmdsPersist == 1

-----------------------------------------------------------------------------
(* Configuration and static data *)

\* process.env.MIDTRANS_SERVER_KEY
SERVER_KEY == "SK"

\* JavaScript's null / undefined / missing field; falsy like the empty string
NULL == ""

ITEM_CATALOG ==
    ("Air Putih" :> [price |-> 100, relay |-> 1]) @@
    ("Teh" :> [price |-> 100, relay |-> 2])

\* the responses of the handlers: res.json({ token, order_id }),
\* res.status(200).send('OK'), res.status(400 | 500).json({ error })
NoResponse == [status |-> 0, body |-> NULL]
TokenResponse == [status |-> 200, body |-> "token"]
OkResponse == [status |-> 200, body |-> "OK"]
ErrorResponse(code) == [status |-> code, body |-> "error"]
InvalidSignatureResponse == [status |-> 400, body |-> "Invalid signature"]

\* `ORDER-${Date.now()}`
OrderIdAt(t) == "ORDER-" \o ToString(t)

OrderIds == { OrderIdAt(t) : t \in 1..MaxClock }

-----------------------------------------------------------------------------
(* Signature verification *)

\* The gross_amount strings the notifications carry, with parseFloat's value
\* for each, in hundredths.
GrossAmounts == {"100.00"}

parseFloatCents(g) ==
    CASE g = "100.00" -> 10000
      [] g = "100" -> 10000
      [] g = "200.00" -> 20000

\* Number.prototype.toFixed(2) of a value given in hundredths
toFixed2(c) ==
    ToString(c \div 100) \o "." \o ToString((c % 100) \div 10) \o ToString(c % 10)

\* crypto.createHash('sha512').update(s).digest('hex'): injective on the model's strings
sha512hex(s) == "sha512(" \o s \o ")"

\* the function without status_code in the hashed string
verifySignatureWithKey_NoStatusCode(n, serverKey) ==
    IF n.order_id = NULL \/ n.status_code = NULL \/ n.gross_amount = NULL
       \/ n.signature_key = NULL
    THEN FALSE
    ELSE LET normalizedGrossAmount == toFixed2(parseFloatCents(n.gross_amount))
             stringToHash == n.order_id \o "200" \o normalizedGrossAmount
                               \o serverKey
         IN sha512hex(stringToHash) = n.signature_key

\* verifyMidtransSignature, index.js:160-170, with the value of
\* process.env.MIDTRANS_SERVER_KEY it reads as its second argument
verifySignatureWithKey(n, serverKey) ==
    IF n.order_id = NULL \/ n.status_code = NULL \/ n.gross_amount = NULL
       \/ n.signature_key = NULL
    THEN FALSE
    ELSE LET normalizedGrossAmount == toFixed2(parseFloatCents(n.gross_amount))
             stringToHash == n.order_id \o n.status_code \o normalizedGrossAmount
                               \o serverKey
         IN sha512hex(stringToHash) = n.signature_key

verifyMidtransSignature(n) == verifySignatureWithKey(n, SERVER_KEY)

\* the signature the payment gateway puts on a notification
GatewaySignature(o, code, gross) == sha512hex(o \o code \o gross \o SERVER_KEY)

-----------------------------------------------------------------------------
(* The queue *)

\* A command is the object { order_id, status, relay } of the code; uid is
\* a ghost field, the index of the publishToMQTT call that created it.
Command(order_id, status, relay, uid) ==
    [order_id |-> order_id, status |-> status, relay |-> relay, uid |-> uid]

\* The part of the state processQueue and publishToMQTT read and write.
Dispatcher ==
    [mqttQueue |-> mqttQueue, isProcessingQueue |-> isProcessingQueue,
     inFlight |-> inFlight, timers |-> timers, immediates |-> immediates,
     enqLog |-> enqLog, downEnq |-> downEnq]

SetDispatcher(d) ==
    /\ enqLog' = d.enqLog
    /\ mqttQueue' = d.mqttQueue
    /\ isProcessingQueue' = d.isProcessingQueue
    /\ inFlight' = d.inFlight
    /\ timers' = d.timers
    /\ immediates' = d.immediates
    /\ downEnq' = d.downEnq

\* processQueue without the isProcessingQueue test of index.js:127
processQueue_NoFlag(d) ==
    IF Len(d.mqttQueue) = 0
    THEN d
    ELSE LET cmd == Head(d.mqttQueue)
             shifted == Tail(d.mqttQueue)
         IN IF connected
            THEN [d EXCEPT !.mqttQueue = shifted,
                           !.isProcessingQueue = TRUE,
                           !.inFlight = Append(@, cmd)]
            ELSE [d EXCEPT !.mqttQueue = Append(shifted, cmd),
                           !.isProcessingQueue = FALSE,
                           !.timers = @ + 1]

\* processQueue without the push of index.js:146
processQueue_DropWhenDown(d) ==
    IF d.isProcessingQueue \/ Len(d.mqttQueue) = 0
    THEN d
    ELSE LET cmd == Head(d.mqttQueue)
             shifted == Tail(d.mqttQueue)
         IN IF connected
            THEN [d EXCEPT !.mqttQueue = shifted,
                           !.isProcessingQueue = TRUE,
                           !.inFlight = Append(@, cmd)]
            ELSE [d EXCEPT !.mqttQueue = shifted,
                           !.isProcessingQueue = FALSE,
                           !.timers = @ + 1]

\* processQueue taking the command with pop() instead of shift() at index.js:130
processQueue_Pop(d) ==
    IF d.isProcessingQueue \/ Len(d.mqttQueue) = 0
    THEN d
    ELSE LET cmd == d.mqttQueue[Len(d.mqttQueue)]
             popped == SubSeq(d.mqttQueue, 1, Len(d.mqttQueue) - 1)
         IN IF connected
            THEN [d EXCEPT !.mqttQueue = popped,
                           !.isProcessingQueue = TRUE,
                           !.inFlight = Append(@, cmd)]
            ELSE [d EXCEPT !.mqttQueue = Append(popped, cmd),
                           !.isProcessingQueue = FALSE,
                           !.timers = @ + 1]

\* processQueue without the mqttClient.connected test of index.js:132
processQueue_NoConnectedTest(d) ==
    IF d.isProcessingQueue \/ Len(d.mqttQueue) = 0
    THEN d
    ELSE LET cmd == Head(d.mqttQueue)
             shifted == Tail(d.mqttQueue)
         IN [d EXCEPT !.mqttQueue = shifted,
                      !.isProcessingQueue = TRUE,
                      !.inFlight = Append(@, cmd)]

\* processQueue without the setTimeout of index.js:148
processQueue_NoRetryTimer(d) ==
    IF d.isProcessingQueue \/ Len(d.mqttQueue) = 0
    THEN d
    ELSE LET cmd == Head(d.mqttQueue)
             shifted == Tail(d.mqttQueue)
         IN IF connected
            THEN [d EXCEPT !.mqttQueue = shifted,
                           !.isProcessingQueue = TRUE,
                           !.inFlight = Append(@, cmd)]
            ELSE [d EXCEPT !.mqttQueue = Append(shifted, cmd),
                           !.isProcessingQueue = FALSE]

\* processQueue(), index.js:126-150, up to the point where it returns; the
\* publish callback is the action PublishCallback.
processQueue(d) ==
    IF d.isProcessingQueue \/ Len(d.mqttQueue) = 0
    THEN d
    ELSE LET cmd == Head(d.mqttQueue)
             shifted == Tail(d.mqttQueue)
         IN IF connected
            THEN [d EXCEPT !.mqttQueue = shifted,
                           !.isProcessingQueue = TRUE,
                           !.inFlight = Append(@, cmd)]
            ELSE [d EXCEPT !.mqttQueue = Append(shifted, cmd),
                           !.isProcessingQueue = FALSE,
                           !.timers = @ + 1]

\* publishToMQTT(order_id, status, relay), index.js:152-155
publishToMQTT(d, order_id, status, relay) ==
    LET cmd == Command(order_id, status, relay, Len(d.enqLog) + 1)
    IN processQueue([d EXCEPT !.mqttQueue = Append(@, cmd),
                              !.enqLog = Append(@, cmd),
                              !.downEnq = IF connected THEN @ ELSE @ \cup {cmd.uid}])

\* a setTimeout(processQueue, 1000) callback runs
TimerFire ==
    /\ timers > 0
    /\ SetDispatcher(processQueue([Dispatcher EXCEPT !.timers = @ - 1]))
    /\ UNCHANGED <<connected, orderMap, now, res, published, dbUpdate, sig>>

\* a setImmediate(processQueue) callback runs
ImmediateFire ==
    /\ immediates > 0
    /\ SetDispatcher(processQueue([Dispatcher EXCEPT !.immediates = @ - 1]))
    /\ UNCHANGED <<connected, orderMap, now, res, published, dbUpdate, sig>>

RemoveAt(s, i) == SubSeq(s, 1, i - 1) \o SubSeq(s, i + 1, Len(s))

\* the publish callback without the push of index.js:138
PublishCallback_DropOnError(i, error) ==
    /\ i \in 1..Len(inFlight)
    /\ mqttQueue' = mqttQueue
    /\ published' = IF error THEN published ELSE Append(published, inFlight[i])
    /\ inFlight' = RemoveAt(inFlight, i)
    /\ isProcessingQueue' = FALSE
    /\ immediates' = immediates + 1
    /\ UNCHANGED <<connected, timers, orderMap, now, res, enqLog, downEnq, dbUpdate, sig>>

\* the callback given to mqttClient.publish runs, index.js:135-144
PublishCallback(i, error) ==
    /\ i \in 1..Len(inFlight)
    /\ LET cmd == inFlight[i]
       IN /\ mqttQueue' = IF error THEN Append(mqttQueue, cmd) ELSE mqttQueue
          /\ published' = IF error THEN published ELSE Append(published, cmd)
    /\ inFlight' = RemoveAt(inFlight, i)
    /\ isProcessingQueue' = FALSE
    /\ immediates' = immediates + 1
    /\ UNCHANGED <<connected, timers, orderMap, now, res, enqLog, downEnq, dbUpdate, sig>>

\* the MQTT client's 'connect' event, index.js:109
Connect ==
    /\ ~connected
    /\ connected' = TRUE
    /\ UNCHANGED <<mqttQueue, isProcessingQueue, inFlight, timers, immediates,
                   orderMap, now, res, enqLog, published, downEnq, dbUpdate, sig>>

\* the MQTT client's 'close' event, index.js:111; it reconnects by itself
Disconnect ==
    /\ connected
    /\ connected' = FALSE
    /\ downEnq' = {}
    /\ UNCHANGED <<mqttQueue, isProcessingQueue, inFlight, timers, immediates,
                   orderMap, now, res, enqLog, published, dbUpdate, sig>>

-----------------------------------------------------------------------------
(* HTTP handlers *)

\* Both handlers are async functions.  Everything they do to orderMap and
\* to the queue happens before their first await; after it they only query
\* the payment gateway and the database and send the response, so each is
\* one action whose response is the one the handler ends with.

Tick ==
    /\ now < MaxClock
    /\ now' = now + 1
    /\ UNCHANGED <<mqttQueue, isProcessingQueue, connected, inFlight, timers,
                   immediates, orderMap, res, enqLog, published, downEnq, dbUpdate, sig>>

\* request bodies, each with the outcome of snap.createTransaction: the two
\* catalog items with a valid quantity, and one body for each way validation
\* rejects (the payment gateway is not called for those)
CreateRequests ==
    { [item_name |-> i, quantity |-> 2, hasCustomer |-> TRUE, snapOk |-> ok] :
        i \in {"Air Putih", "Teh"}, ok \in BOOLEAN }
    \cup { [item_name |-> NULL, quantity |-> 2, hasCustomer |-> TRUE, snapOk |-> TRUE],
           [item_name |-> "Teh", quantity |-> 0, hasCustomer |-> TRUE, snapOk |-> TRUE],
           [item_name |-> "Teh", quantity |-> 2, hasCustomer |-> FALSE, snapOk |-> TRUE],
           [item_name |-> "Kopi", quantity |-> 2, hasCustomer |-> TRUE, snapOk |-> TRUE],
           [item_name |-> "Teh", quantity |-> 11, hasCustomer |-> TRUE, snapOk |-> TRUE],
           [item_name |-> "Teh", quantity |-> -1, hasCustomer |-> TRUE, snapOk |-> TRUE] }

\* orderMap[orderId] = item_name
MapPut(m, k, v) == [x \in DOMAIN m \cup {k} |-> IF x = k THEN v ELSE m[x]]

\* POST /create-transaction, index.js:175-217
CreateTransaction(item_name, quantity, hasCustomer, snapOk) ==
    /\ IF item_name = NULL \/ quantity = 0 \/ ~hasCustomer
       THEN /\ res' = ErrorResponse(400)
            /\ UNCHANGED orderMap
       ELSE IF item_name \notin DOMAIN ITEM_CATALOG
       THEN /\ res' = ErrorResponse(400)
            /\ UNCHANGED orderMap
       ELSE IF quantity <= 0 \/ quantity > 10
       THEN /\ res' = ErrorResponse(400)
            /\ UNCHANGED orderMap
       ELSE /\ orderMap' = MapPut(orderMap, OrderIdAt(now), item_name)
            /\ res' = IF snapOk THEN TokenResponse ELSE ErrorResponse(500)
    /\ UNCHANGED <<mqttQueue, isProcessingQueue, connected, inFlight, timers,
                   immediates, now, enqLog, published, downEnq, dbUpdate, sig>>

TransactionStatuses == {"capture", "settlement", "deny", "cancel", "expire", "pending"}
FraudStatuses == {NULL, "accept", "challenge"}
StatusCodes == {"200"}

\* a notification as the payment gateway sends it, signed over the amount
\* in the gateway's own two-decimal form
GatewayNotification(o, ts, fs, code, g) ==
    [order_id |-> o, transaction_status |-> ts, fraud_status |-> fs,
     status_code |-> code, gross_amount |-> g,
     signature_key |-> GatewaySignature(o, code, "100.00")]

\* the same with the signature_key replaced
Tampered(n) == [n EXCEPT !.signature_key = "tampered"]

GenuineNotifications ==
    { GatewayNotification(o, ts, fs, code, g) :
        o \in OrderIds, ts \in TransactionStatuses, fs \in FraudStatuses,
        code \in StatusCodes, g \in GrossAmounts }

Notifications ==
    GenuineNotifications \cup
    { Tampered(GatewayNotification(o, ts, NULL, "200", "100.00")) :
        o \in OrderIds, ts \in {"settlement", "expire"} }

\* orderMap[order_id] || 'Unknown'
ItemOf(order_id) ==
    IF order_id \in DOMAIN orderMap /\ orderMap[order_id] # NULL
    THEN orderMap[order_id] ELSE "Unknown"

\* the null of `?? null`, as a relay number; falsy like every other absent relay
NULL_RELAY == 0

\* a relay lookup that falls back to relay 1 instead of null
RelayOf_DefaultOne(item_name) ==
    IF item_name \in DOMAIN ITEM_CATALOG THEN ITEM_CATALOG[item_name].relay ELSE 1

\* ITEM_CATALOG[item_name]?.relay ?? null
RelayOf(item_name) ==
    IF item_name \in DOMAIN ITEM_CATALOG
    THEN ITEM_CATALOG[item_name].relay ELSE NULL_RELAY

\* the handler with the second publishToMQTT of index.js:247 left out
NotificationCommands_OneOff(n) ==
    LET relay == RelayOf(ItemOf(n.order_id))
    IN IF n.transaction_status \in {"capture", "settlement"}
          /\ (n.fraud_status = NULL \/ n.fraud_status = "accept")
       THEN IF relay # NULL_RELAY
            THEN << <<"on", relay>> >>
            ELSE << >>
       ELSE IF n.transaction_status \in {"deny", "cancel", "expire"}
       THEN << <<"off", 1>> >>
       ELSE << >>

\* the commands the handler passes to publishToMQTT, in order, index.js:238-248
NotificationCommands(n) ==
    LET relay == RelayOf(ItemOf(n.order_id))
    IN IF n.transaction_status \in {"capture", "settlement"}
          /\ (n.fraud_status = NULL \/ n.fraud_status = "accept")
       THEN IF relay # NULL_RELAY
            THEN << <<"on", relay>> >>
            ELSE << >>
       ELSE IF n.transaction_status \in {"deny", "cancel", "expire"}
       THEN << <<"off", 1>>, <<"off", 2>> >>
       ELSE << >>

RECURSIVE PublishAll(_, _, _)
PublishAll(d, order_id, cmds) ==
    IF cmds = << >> THEN d
    ELSE PublishAll(publishToMQTT(d, order_id, Head(cmds)[1], Head(cmds)[2]),
                    order_id, Tail(cmds))

\* the parameters of `UPDATE transactions SET status=? WHERE order_id=?`
Update(order_id, status) == [order_id |-> order_id, status |-> status]

NoUpdate == Update(NULL, NULL)

\* newStatus with every branch giving "success"
newStatus_AlwaysSuccess(n) == "success"

\* let newStatus = transaction_status and its two reassignments, index.js:235-248
newStatus(n) ==
    IF n.transaction_status \in {"capture", "settlement"}
       /\ (n.fraud_status = NULL \/ n.fraud_status = "accept")
    THEN "success"
    ELSE IF n.transaction_status \in {"deny", "cancel", "expire"}
    THEN "failed"
    ELSE n.transaction_status

\* the handler without the signature test of index.js:230
NotificationHandler_NoVerify(n, dbOk) ==
    /\ res' = OkResponse
    /\ dbUpdate' = IF dbOk THEN Update(n.order_id, newStatus(n)) ELSE dbUpdate
    /\ UNCHANGED <<connected, orderMap, now, published, sig>>
    /\ SetDispatcher(PublishAll(Dispatcher, n.order_id, NotificationCommands(n)))

\* POST /midtrans-notification, index.js:222-258.  dbOk is the outcome of
\* the query inside safeDbQuery: executed, or thrown and swallowed
\* (index.js:53-61).
NotificationHandler(n, dbOk) ==
    IF ~verifyMidtransSignature(n)
    THEN /\ res' = InvalidSignatureResponse
         /\ UNCHANGED <<mqttQueue, isProcessingQueue, connected, inFlight, timers,
                        immediates, orderMap, now, enqLog, published, downEnq, dbUpdate, sig>>
    ELSE /\ res' = OkResponse
         /\ dbUpdate' = IF dbOk THEN Update(n.order_id, newStatus(n)) ELSE dbUpdate
         /\ UNCHANGED <<connected, orderMap, now, published, sig>>
         /\ SetDispatcher(PublishAll(Dispatcher, n.order_id, NotificationCommands(n)))

\* The handler while the database is unreachable.  Nothing in the program
\* reads the table, so the queue and orderMap behave the same either way.
MidtransNotification(n) == NotificationHandler(n, FALSE)

\* POST /midtrans-notification of the older variant, part_000:198-231: the
\* UPDATE goes through db.query, whose exception (db undefined after a failed
\* connection at part_000:34-58, or a rejected query) reaches the catch of
\* part_000:227-230 after the commands were enqueued.
NotificationHandler_part000(n, dbOk) ==
    IF ~verifyMidtransSignature(n)
    THEN /\ res' = InvalidSignatureResponse
         /\ UNCHANGED <<mqttQueue, isProcessingQueue, connected, inFlight, timers,
                        immediates, orderMap, now, enqLog, published, downEnq, dbUpdate, sig>>
    ELSE /\ res' = IF dbOk THEN OkResponse ELSE ErrorResponse(500)
         /\ dbUpdate' = IF dbOk THEN Update(n.order_id, newStatus(n)) ELSE dbUpdate
         /\ UNCHANGED <<connected, orderMap, now, published, sig>>
         /\ SetDispatcher(PublishAll(Dispatcher, n.order_id, NotificationCommands(n)))

\* POST /create-transaction of the older variant, part_000:148-193: the
\* INSERT goes through db.query too, part_000:182
CreateTransaction_part000(item_name, quantity, hasCustomer, snapOk, dbOk) ==
    /\ IF item_name = NULL \/ quantity = 0 \/ ~hasCustomer
       THEN /\ res' = ErrorResponse(400)
            /\ UNCHANGED orderMap
       ELSE IF item_name \notin DOMAIN ITEM_CATALOG
       THEN /\ res' = ErrorResponse(400)
            /\ UNCHANGED orderMap
       ELSE IF quantity <= 0 \/ quantity > 10
       THEN /\ res' = ErrorResponse(400)
            /\ UNCHANGED orderMap
       ELSE /\ orderMap' = MapPut(orderMap, OrderIdAt(now), item_name)
            /\ res' = IF snapOk /\ dbOk THEN TokenResponse ELSE ErrorResponse(500)
    /\ UNCHANGED <<mqttQueue, isProcessingQueue, connected, inFlight, timers,
                   immediates, now, enqLog, published, downEnq, dbUpdate, sig>>

-----------------------------------------------------------------------------
(* Calls of verifyMidtransSignature on their own *)

\* the values process.env.MIDTRANS_SERVER_KEY may hold
ServerKeys == {SERVER_KEY, "SK2"}

SigStatusCodes == {"200", "201"}
SigGrossAmounts == {"100.00", "100", "200.00"}

\* the fields of a notification the function reads, index.js:161
SigNotification(o, code, gross, key) ==
    [order_id |-> o, status_code |-> code, gross_amount |-> gross, signature_key |-> key]

\* the digests the gateway computes, over its two-decimal amounts
SigDigests ==
    { sha512hex(o \o code \o gross \o k) :
        o \in OrderIds, code \in SigStatusCodes, gross \in {"100.00", "200.00"},
        k \in ServerKeys }

SigNotifications ==
    { SigNotification(o, code, gross, key) :
        o \in OrderIds, code \in SigStatusCodes, gross \in SigGrossAmounts,
        key \in SigDigests \cup {NULL} }

\* No call made.  altered names the field changed since the previous call
\* and from holds the value it had.
NoSig ==
    [n |-> SigNotification(NULL, NULL, NULL, NULL), key |-> NULL, called |-> FALSE,
     valid |-> FALSE, altered |-> NULL, from |-> NULL]

\* a call with a notification and a server key
VerifyCall ==
    /\ ~sig.called
    /\ sig' = [sig EXCEPT !.called = TRUE,
                          !.valid = verifySignatureWithKey(sig.n, sig.key)]
    /\ UNCHANGED <<mqttQueue, isProcessingQueue, connected, inFlight, timers,
                   immediates, orderMap, now, res, enqLog, published, downEnq, dbUpdate>>

\* a second call, after a call that returned true, with one of order_id,
\* status_code and gross_amount given a different value
VerifyAltered(field, value) ==
    /\ sig.called /\ sig.valid /\ sig.altered = NULL
    /\ sig.n[field] # value
    /\ LET n == [sig.n EXCEPT ![field] = value]
       IN sig' = [sig EXCEPT !.n = n, !.valid = verifySignatureWithKey(n, sig.key),
                             !.altered = field, !.from = sig.n[field]]
    /\ UNCHANGED <<mqttQueue, isProcessingQueue, connected, inFlight, timers,
                   immediates, orderMap, now, res, enqLog, published, downEnq, dbUpdate>>

\* a second call, after a call that returned true, with a different server key
VerifyRekeyed(key) ==
    /\ sig.called /\ sig.valid /\ sig.altered = NULL
    /\ sig.key # key
    /\ sig' = [sig EXCEPT !.key = key, !.valid = verifySignatureWithKey(sig.n, key),
                          !.altered = "secret", !.from = sig.key]
    /\ UNCHANGED <<mqttQueue, isProcessingQueue, connected, inFlight, timers,
                   immediates, orderMap, now, res, enqLog, published, downEnq, dbUpdate>>

-----------------------------------------------------------------------------
(* The system *)

\* the handler's publishToMQTT calls keep the behaviour within max calls
Room(n, max) ==
    verifyMidtransSignature(n) => Len(enqLog) + Len(NotificationCommands(n)) <= max

InitProgram ==
    /\ mqttQueue = << >>
    /\ isProcessingQueue = FALSE
    /\ connected = FALSE
    /\ inFlight = << >>
    /\ timers = 0
    /\ immediates = 0
    /\ orderMap = << >>
    /\ now = 1
    /\ res = NoResponse
    /\ enqLog = << >>
    /\ published = << >>
    /\ downEnq = {}
    /\ dbUpdate = NoUpdate

Init == InitProgram /\ sig = NoSig

Next ==
    \/ TimerFire
    \/ ImmediateFire
    \/ \E i \in 1..Len(inFlight), error \in BOOLEAN : PublishCallback(i, error)
    \/ Connect
    \/ Disconnect
    \/ Tick
    \/ \E r \in CreateRequests :
            CreateTransaction(r.item_name, r.quantity, r.hasCustomer, r.snapOk)
    \/ \E n \in Notifications : Room(n, MaxCmds) /\ MidtransNotification(n)

Spec == Init /\ [][Next]_vars

\* The server with a database that executes a query or fails it (dbOk).
PersistNext ==
    \/ TimerFire
    \/ ImmediateFire
    \/ \E i \in 1..Len(inFlight), error \in BOOLEAN : PublishCallback(i, error)
    \/ Connect
    \/ Disconnect
    \/ Tick
    \/ \E r \in CreateRequests :
            CreateTransaction(r.item_name, r.quantity, r.hasCustomer, r.snapOk)
    \/ \E n \in Notifications, dbOk \in BOOLEAN :
            Room(n, MaxCmdsPersist) /\ NotificationHandler(n, dbOk)

SpecPersist == Init /\ [][PersistNext]_vars

\* The older variant of the server, src/unnamed/part_000.  Its queue, its
\* signature test and its catalog are those of index.js (part_000:99-143).
Part000Next ==
    \/ TimerFire
    \/ ImmediateFire
    \/ \E i \in 1..Len(inFlight), error \in BOOLEAN : PublishCallback(i, error)
    \/ Connect
    \/ Disconnect
    \/ Tick
    \/ \E r \in CreateRequests, dbOk \in BOOLEAN :
            CreateTransaction_part000(r.item_name, r.quantity, r.hasCustomer,
                                      r.snapOk, dbOk)
    \/ \E n \in Notifications, dbOk \in BOOLEAN :
            Room(n, MaxCmdsPersist) /\ NotificationHandler_part000(n, dbOk)

SpecPart000 == Init /\ [][Part000Next]_vars

\* Calls of verifyMidtransSignature, each followed by a call with one input altered.
InitSig ==
    /\ InitProgram
    /\ \E n \in SigNotifications, k \in ServerKeys :
            sig = [NoSig EXCEPT !.n = n, !.key = k]

SigNext ==
    \/ VerifyCall
    \/ \E value \in OrderIds : VerifyAltered("order_id", value)
    \/ \E value \in SigStatusCodes : VerifyAltered("status_code", value)
    \/ \E value \in SigGrossAmounts : VerifyAltered("gross_amount", value)
    \/ \E key \in ServerKeys : VerifyRekeyed(key)

SpecSig == InitSig /\ [][SigNext]_vars

-----------------------------------------------------------------------------
(* Environments under which the temporal claims are stated *)

\* No publish callback reports an error; everything else as in Next.
NoErrorNext ==
    \/ TimerFire
    \/ ImmediateFire
    \/ \E i \in 1..Len(inFlight) : PublishCallback(i, FALSE)
    \/ Connect
    \/ Disconnect
    \/ Tick
    \/ \E r \in CreateRequests :
            CreateTransaction(r.item_name, r.quantity, r.hasCustomer, r.snapOk)
    \/ \E n \in Notifications : Room(n, MaxCmds) /\ MidtransNotification(n)

SpecNoError == Init /\ [][NoErrorNext]_vars

\* The broker, once connected, stays connected and accepts every publish;
\* commands are enqueued while it is connected.  No retry timer is ever set
\* in this environment, so TimerFire has nothing to run.
ConnectedNext ==
    \/ ImmediateFire
    \/ \E i \in 1..Len(inFlight) : PublishCallback(i, FALSE)
    \/ Connect
    \/ Tick
    \/ \E r \in CreateRequests :
            CreateTransaction(r.item_name, r.quantity, r.hasCustomer, r.snapOk)
    \/ \E n \in Notifications :
            connected /\ Room(n, MaxCmdsConnected) /\ MidtransNotification(n)

\* The event loop runs every pending setImmediate callback, and the broker
\* acknowledges every publish.
SpecConnected ==
    /\ Init
    /\ [][ConnectedNext]_vars
    /\ WF_vars(ImmediateFire)
    /\ WF_vars(\E i \in 1..Len(inFlight) : PublishCallback(i, FALSE))

\* a pending activation runs at a moment the broker is connected
ActivationWhileConnected == connected /\ (TimerFire \/ ImmediateFire)

\* the publish of command u is acknowledged
Acknowledged(u) ==
    \E i \in 1..Len(inFlight) :
        /\ inFlight[i].uid = u
        /\ PublishCallback(i, FALSE)

\* The event loop runs every pending timer and setImmediate callback; the
\* client reconnects after a close; the broker is connected again and again
\* at a moment an activation runs, and again and again acknowledges the
\* publish of each command.
SpecLive ==
    /\ Init
    /\ [][Next]_vars
    /\ WF_vars(TimerFire)
    /\ WF_vars(ImmediateFire)
    /\ WF_vars(Connect)
    /\ SF_vars(ActivationWhileConnected)
    /\ \A u \in 1..MaxCmds : SF_vars(Acknowledged(u))

-----------------------------------------------------------------------------
(* Claims *)

InSeq(c, s) == \E i \in 1..Len(s) : s[i] = c
Uids(s) == { s[i].uid : i \in 1..Len(s) }
SameCommand(c, e) ==
    c.order_id = e.order_id /\ c.status = e.status /\ c.relay = e.relay

\* C1: at every instant at most one publish has been issued and still awaits
\* its completion callback.
C1_AtMostOneInFlight == Len(inFlight) <= 1

\* a publish is in flight while another command waits in the queue with
\* activations pending
C1_Witness ==
    Len(inFlight) = 1 /\ Len(mqttQueue) >= 1 /\ timers + immediates >= 1

\* C2: every command passed to publishToMQTT and not yet successfully
\* published is in mqttQueue or is the command of the publish in flight.
C2_NoCommandLost ==
    \A k \in 1..Len(enqLog) :
        ~InSeq(enqLog[k], published)
            => InSeq(enqLog[k], mqttQueue) \/ InSeq(enqLog[k], inFlight)

\* while disconnected, one command has been published, the other has gone
\* through processQueue and is back in the queue
C2_Witness ==
    /\ ~connected
    /\ Len(enqLog) = 2
    /\ Len(published) = 1
    /\ Len(mqttQueue) = 1
    /\ timers >= 1

\* C3: with the broker connected and every publish accepted, the commands
\* published so far are exactly the first commands passed to publishToMQTT,
\* each once and in call order, and the k-th command passed is eventually
\* published.
C3_PublishedOnceInOrder ==
    /\ [](/\ Len(published) <= Len(enqLog)
          /\ published = SubSeq(enqLog, 1, Len(published)))
    /\ \A k \in 1..MaxCmdsConnected :
          (Len(enqLog) >= k) ~> (Len(published) >= k /\ published[k] = enqLog[k])

\* three commands were enqueued, two of them waited in the queue together,
\* and all have been published
C3_Witness ==
    /\ Len(enqLog) = 3
    /\ published = enqLog
    /\ enqLog[1].order_id # enqLog[2].order_id

\* C4: a step taken while the broker is disconnected issues no publish, and
\* after it (in particular after the step that connects) every command
\* enqueued since the connection closed is in mqttQueue.
C4_NoPublishWhileDisconnected ==
    [][~connected =>
         /\ \A i \in 1..Len(inFlight') : InSeq(inFlight'[i], inFlight)
         /\ downEnq' \subseteq Uids(mqttQueue')]_vars

\* the broker has just connected after two commands were enqueued while it
\* was down, and both are in the queue
C4_Witness ==
    /\ connected
    /\ Cardinality(downEnq) = 2
    /\ downEnq \subseteq Uids(mqttQueue)
    /\ inFlight = << >>

\* C5: when no publish callback reports an error, commands are published in
\* the order in which they were passed to publishToMQTT.
C5_PublishedInCallOrder ==
    \A i, j \in 1..Len(published) :
        i < j => published[i].uid < published[j].uid

\* C6: when a publish completes with an error (its command leaves inFlight
\* and is not recorded as published), the same command is appended to the
\* tail of mqttQueue, the flag is released and one more setImmediate
\* activation is pending; this holds however often the command has failed.
C6_FailedPublishRequeued ==
    [][\A i \in 1..Len(inFlight) :
          (~InSeq(inFlight[i], inFlight') /\ published' = published) =>
              /\ Len(mqttQueue') = Len(mqttQueue) + 1
              /\ SubSeq(mqttQueue', 1, Len(mqttQueue)) = mqttQueue
              /\ SameCommand(mqttQueue'[Len(mqttQueue')], inFlight[i])
              /\ mqttQueue'[Len(mqttQueue')].uid = inFlight[i].uid
              /\ ~isProcessingQueue'
              /\ immediates' = immediates + 1]_vars

\* the first command failed and sits behind the second; nothing has been
\* published; the next activation is pending
C6_Witness ==
    /\ Len(enqLog) = 2
    /\ mqttQueue = <<enqLog[2], enqLog[1]>>
    /\ published = << >>
    /\ connected
    /\ immediates = 1 /\ timers = 0
    /\ ~isProcessingQueue

\* C7: under fair scheduling, with a broker that connects again and again
\* and in the end accepts each publish, every command passed to
\* publishToMQTT is eventually published, and the number published
\* eventually equals the number enqueued.
C7_EveryCommandEventuallyPublished ==
    /\ \A u \in 1..MaxCmds :
          (Len(enqLog) >= u) ~> (u \in Uids(published))
    /\ <>[](Len(published) = Len(enqLog))

\* both commands are published, the second before the first: a publish
\* was retried
C7_Witness ==
    /\ Len(enqLog) = 2
    /\ Len(published) = 2
    /\ published[1].uid = 2
    /\ published[2].uid = 1

\* The step is the handling of notification n, whose signature verified.
\* (The two conjuncts on enqLog follow from MidtransNotification(n); they
\* come first to settle most steps cheaply.)
HandledVerified(n) ==
    /\ res' = OkResponse
    /\ Len(enqLog') = Len(enqLog) + Len(NotificationCommands(n))
    /\ Len(enqLog') > Len(enqLog) => enqLog'[Len(enqLog')].order_id = n.order_id
    /\ verifyMidtransSignature(n)
    /\ MidtransNotification(n)

\* C8: handling a notification with a valid signature, transaction_status
\* capture or settlement and fraud_status absent or "accept" passes exactly
\* one command to publishToMQTT, {on, relay 1} for an order mapped to
\* Air Putih and {on, relay 2} for an order mapped to Teh, and passes none
\* when the order_id has no entry in orderMap.
C8_PaidOrderSwitchesItsRelayOn ==
    [][\A n \in Notifications :
          (/\ n.transaction_status \in {"capture", "settlement"}
           /\ n.fraud_status \in {NULL, "accept"}
           /\ HandledVerified(n))
          => IF n.order_id \in DOMAIN orderMap
             THEN /\ orderMap[n.order_id] \in {"Air Putih", "Teh"}
                  /\ Len(enqLog') = Len(enqLog) + 1
                  /\ SubSeq(enqLog', 1, Len(enqLog)) = enqLog
                  /\ enqLog'[Len(enqLog')].order_id = n.order_id
                  /\ enqLog'[Len(enqLog')].status = "on"
                  /\ enqLog'[Len(enqLog')].relay =
                        (IF orderMap[n.order_id] = "Air Putih" THEN 1 ELSE 2)
             ELSE enqLog' = enqLog]_vars

\* an order mapped to Teh has been paid and {on, relay 2} was enqueued for it
C8_Witness ==
    /\ res = OkResponse
    /\ Len(enqLog) = 1
    /\ enqLog[1].status = "on"
    /\ enqLog[1].relay = 2
    /\ enqLog[1].order_id \in DOMAIN orderMap
    /\ orderMap[enqLog[1].order_id] = "Teh"

\* C9: after a notification with a valid signature and transaction_status
\* settlement, expire or cancel has been handled, its order_id has no entry
\* in orderMap.
C9_TerminalOrderRemovedFromMap ==
    [][\A n \in Notifications :
          (/\ n.transaction_status \in {"settlement", "expire", "cancel"}
           /\ HandledVerified(n))
          => n.order_id \notin DOMAIN orderMap']_vars

\* C10: handling a notification with a valid signature and
\* transaction_status deny, cancel or expire passes exactly two commands to
\* publishToMQTT, {off, relay 1} then {off, relay 2}, for every item mapped
\* or not mapped to the order_id and every fraud_status.
C10_FailedOrderSwitchesBothRelaysOff ==
    [][\A n \in Notifications :
          (/\ n.transaction_status \in {"deny", "cancel", "expire"}
           /\ HandledVerified(n))
          => /\ Len(enqLog') = Len(enqLog) + 2
             /\ SubSeq(enqLog', 1, Len(enqLog)) = enqLog
             /\ \A r \in 1..2 :
                   /\ enqLog'[Len(enqLog) + r].order_id = n.order_id
                   /\ enqLog'[Len(enqLog) + r].status = "off"
                   /\ enqLog'[Len(enqLog) + r].relay = r]_vars

\* an order mapped to an item has failed and {off, 1}, {off, 2} were
\* enqueued for it
C10_Witness ==
    /\ res = OkResponse
    /\ Len(enqLog) = 2
    /\ enqLog[1].status = "off" /\ enqLog[1].relay = 1
    /\ enqLog[2].status = "off" /\ enqLog[2].relay = 2
    /\ enqLog[1].order_id = enqLog[2].order_id
    /\ enqLog[1].order_id \in DOMAIN orderMap

\* the notifications verifyMidtransSignature rejects
InvalidNotifications == { n \in Notifications : ~verifyMidtransSignature(n) }

\* C11: a notification whose signature_key differs from the digest the
\* server computes is answered 400 and nothing else happens: mqttQueue,
\* isProcessingQueue and the pending activations are unchanged, no command
\* is passed to publishToMQTT, no publish is issued, and no UPDATE reaches
\* the database, whether it is up or not.
C11_InvalidSignatureRejected ==
    [][\A n \in InvalidNotifications, dbOk \in BOOLEAN :
          NotificationHandler(n, dbOk)
          => /\ res' = InvalidSignatureResponse
             /\ UNCHANGED <<mqttQueue, isProcessingQueue, inFlight, timers,
                            immediates, enqLog, published, dbUpdate>>]_vars

\* a tampered notification has been rejected while a command was waiting in
\* the queue and the database had recorded a status before
C11_Witness ==
    /\ res = InvalidSignatureResponse
    /\ Len(mqttQueue) = 1
    /\ dbUpdate # NoUpdate

\* the notifications verifyMidtransSignature accepts
ValidNotifications == { n \in Notifications : verifyMidtransSignature(n) }

\* C12: a notification whose signature passes is answered 200 by the older
\* variant of the handler too, whether the database executes the UPDATE or
\* fails it and whatever the broker connection does.
C12_VerifiedNotificationAnswered200 ==
    [][\A n \in ValidNotifications, dbOk \in BOOLEAN :
          NotificationHandler_part000(n, dbOk) => res' = OkResponse]_vars

\* C13, as stated: after a call of verifyMidtransSignature that returned
\* true, a call with any single one of order_id, status_code, gross_amount
\* and the secret altered to a different value returns false.
C13_AnyAlterationInvalidates ==
    sig.altered # NULL => ~sig.valid

\* C13, amended: after a call that returned true, a call with order_id,
\* status_code or the secret altered to a different value returns false, and
\* so does a call with gross_amount altered to a value whose two-decimal
\* form differs; a gross_amount altered to another spelling of the same
\* amount ("100.00" to "100") is still accepted.
C13_AlterationOfHashedStringInvalidates ==
    IF sig.altered = NULL
    THEN TRUE
    ELSE IF sig.altered = "gross_amount"
            /\ toFixed2(parseFloatCents(sig.from))
                 = toFixed2(parseFloatCents(sig.n.gross_amount))
    THEN sig.valid
    ELSE ~sig.valid

\* a notification that verified has been verified again with another amount
\* and was rejected
C13_Witness ==
    /\ sig.altered = "gross_amount"
    /\ sig.from = "100.00"
    /\ sig.n.gross_amount = "200.00"
    /\ ~sig.valid

\* C14: every message handed to the broker client, in flight or published,
\* has status on or off and relay 1 or 2 and is, field for field, the
\* command publishToMQTT was called with; and a command with status on is
\* created only for an order_id that orderMap maps to a catalog item at that
\* moment, with that item's relay.
C14_PublishedMessagesWellFormed ==
    /\ [](\A c \in {inFlight[i] : i \in 1..Len(inFlight)}
                   \cup {published[i] : i \in 1..Len(published)} :
            /\ c.status \in {"on", "off"}
            /\ c.relay \in {1, 2}
            /\ c.uid \in 1..Len(enqLog)
            /\ c = enqLog[c.uid])
    /\ [][\A k \in (Len(enqLog) + 1)..Len(enqLog') :
            enqLog'[k].status = "on"
            => /\ enqLog'[k].order_id \in DOMAIN orderMap
               /\ orderMap[enqLog'[k].order_id] \in DOMAIN ITEM_CATALOG
               /\ enqLog'[k].relay
                    = ITEM_CATALOG[orderMap[enqLog'[k].order_id]].relay]_vars

\* {on, relay 2} has been published for an order that was mapped to Teh when
\* its notification was handled and is mapped to Air Putih now
C14_Witness ==
    /\ Len(published) >= 1
    /\ published[1].status = "on"
    /\ published[1].relay = 2
    /\ published[1].order_id \in DOMAIN orderMap
    /\ orderMap[published[1].order_id] = "Air Putih"

\* C15: a processQueue activation from a timer or setImmediate that finds
\* the queue non-empty, no publish in flight and the broker not connected
\* leaves mqttQueue unchanged in contents and order, leaves
\* isProcessingQueue false and leaves a retry timer pending.
C15_DisconnectedActivationKeepsQueue ==
    [][(/\ ~connected
        /\ ~isProcessingQueue
        /\ Len(mqttQueue) > 0
        /\ (TimerFire \/ ImmediateFire))
       => /\ mqttQueue' = mqttQueue
          /\ isProcessingQueue' = FALSE
          /\ timers' >= 1]_vars

\* the accepted notifications that match neither action row of the handler
UnmatchedNotifications ==
    { n \in ValidNotifications :
        /\ n.transaction_status \notin {"deny", "cancel", "expire"}
        /\ ~(/\ n.transaction_status \in {"capture", "settlement"}
             /\ n.fraud_status \in {NULL, "accept"}) }

\* C16: handling a notification with a valid signature that matches neither
\* action row (pending, or capture or settlement with a fraud_status other
\* than accept) is answered 200, passes nothing to publishToMQTT and leaves
\* the queue, the flag, the publishes in flight and the pending activations
\* unchanged; the status the database is given is the transaction_status
\* itself, and nothing is recorded when the database fails the query.
C16_UnmatchedStatusOnlyRecorded ==
    [][\A n \in UnmatchedNotifications, dbOk \in BOOLEAN :
          NotificationHandler(n, dbOk)
          => /\ res' = OkResponse
             /\ UNCHANGED <<mqttQueue, isProcessingQueue, inFlight, timers,
                            immediates, enqLog, published>>
             /\ dbUpdate' = IF dbOk
                            THEN Update(n.order_id, n.transaction_status)
                            ELSE dbUpdate]_vars

\* a capture held for fraud review has been recorded as "capture" while a
\* command was waiting in the queue
C16_Witness ==
    /\ res = OkResponse
    /\ dbUpdate.status = "capture"
    /\ Len(mqttQueue) = 1

\* C17: between event-loop tasks, whenever mqttQueue is non-empty and no
\* publish is in flight, at least one processQueue activation is pending, as
\* a retry timer or as a setImmediate.
C17_DrainNeverStalls ==
    (Len(mqttQueue) > 0 /\ Len(inFlight) = 0) => timers + immediates >= 1

\* the broker has connected while two commands wait for a retry timer
C17_Witness ==
    /\ connected
    /\ Len(mqttQueue) = 2
    /\ Len(inFlight) = 0
    /\ timers >= 1

\* C18: at most one processQueue activation is pending at any time.
C18_AtMostOnePendingActivation ==
    timers + immediates <= 1

\* the request bodies that pass validation
ValidCreateRequests ==
    { r \in CreateRequests :
        /\ r.item_name \in DOMAIN ITEM_CATALOG
        /\ r.quantity \in 1..10
        /\ r.hasCustomer }

\* C19: a create-transaction request that passes validation is given an
\* order_id no earlier request was given, and no entry orderMap already
\* holds is changed by it.
C19_FreshOrderId ==
    [][\A r \in ValidCreateRequests :
          CreateTransaction(r.item_name, r.quantity, r.hasCustomer, r.snapOk)
          => /\ OrderIdAt(now) \notin DOMAIN orderMap
             /\ \A o \in DOMAIN orderMap : orderMap'[o] = orderMap[o]]_vars

\* C20: for each order_id, at most one command with status on is ever
\* passed to publishToMQTT.
C20_AtMostOneOnPerOrder ==
    \A i, j \in 1..Len(enqLog) :
        (/\ enqLog[i].status = "on"
         /\ enqLog[j].status = "on"
         /\ enqLog[i].order_id = enqLog[j].order_id)
        => i = j

=============================================================================
